---- MODULE Spec2Model ----
(***************************************************************************)
(* Model of grid-game2-bot:                                                *)
(*   - util/transforms.rs : the letterboxing Transform                     *)
(*   - viewer.rs          : the random path walk of paint_game             *)
(*   - main.rs            : the ring-counting loop                         *)
(* Three specifications share the variables below; each leaves the         *)
(* variables of the other two parts untouched.                             *)
(***************************************************************************)
EXTENDS Integers, Sequences, FiniteSets, TLC

VARIABLES
    \* util/transforms.rs, driven as make_transform / inverse / map_point
    xpc, src_p1, src_p2, dst_p1, dst_p2, xform, xinv, pt, mapped, back,
    \* viewer.rs: paint_game's path walk
    wpc, color, i, samples, last_tile, last_edge, occupied_edges,
    world_to_screen, draw_lines, trail, lastStep, markers, accepted, rejected,
    \* main.rs: the ring loop
    mpc, r, total, ring_count, ring, ring_item

xvars == <<xpc, src_p1, src_p2, dst_p1, dst_p2, xform, xinv, pt, mapped, back>>
wvars == <<wpc, color, i, samples, last_tile, last_edge, occupied_edges,
           world_to_screen, draw_lines, trail, lastStep, markers, accepted, rejected>>
mvars == <<mpc, r, total, ring_count, ring, ring_item>>
vars == <<xvars, wvars, mvars>>

\* Option<T>: None is the empty sequence, Some(v) the one-element sequence.
None == <<>>
Some(v) == <<v>>

(***************************************************************************)
(* f32 values.  A value is sign * n / d with n, d coprime naturals:        *)
(* d = 0, n = 1 is an infinity, d = 0, n = 0 is NaN, n = 0, d = 1 is a     *)
(* signed zero.  Arithmetic is exact on the finite values (rounding is not *)
(* modelled) and follows IEEE 754 on zeros, infinities and NaN.            *)
(***************************************************************************)
Abs(k) == IF k < 0 THEN -k ELSE k

RECURSIVE GCD(_, _)
GCD(a, b) == IF b = 0 THEN a ELSE GCD(b, a % b)

NaN == [s |-> 1, n |-> 0, d |-> 0]
IsNaN(a) == a.n = 0 /\ a.d = 0
IsInf(a) == a.n # 0 /\ a.d = 0
IsZero(a) == a.n = 0 /\ a.d # 0
IsFinite(a) == a.d # 0

Norm(s, n, d) ==
    IF d = 0 THEN (IF n = 0 THEN NaN ELSE [s |-> s, n |-> 1, d |-> 0])
    ELSE IF n = 0 THEN [s |-> s, n |-> 0, d |-> 1]
    ELSE LET g == GCD(n, d) IN [s |-> s, n |-> n \div g, d |-> d \div g]

FInt(k) == [s |-> IF k < 0 THEN -1 ELSE 1, n |-> Abs(k), d |-> 1]

FNeg(a) == IF IsNaN(a) THEN NaN ELSE [a EXCEPT !.s = -a.s]

FAbs(a) == [a EXCEPT !.s = 1]

\* f32::copysign: the magnitude of a with the sign of b.
FCopysign(a, b) == IF IsNaN(a) THEN NaN ELSE [a EXCEPT !.s = b.s]

FMul(a, b) ==
    IF IsNaN(a) \/ IsNaN(b) THEN NaN
    ELSE Norm(a.s * b.s, a.n * b.n, a.d * b.d)

\* f32::recip: 1/0 is an infinity of the zero's sign, 1/inf a zero.
FRecip(a) == IF IsNaN(a) THEN NaN ELSE [s |-> a.s, n |-> a.d, d |-> a.n]

FDiv(a, b) == FMul(a, FRecip(b))

FAdd(a, b) ==
    IF IsNaN(a) \/ IsNaN(b) THEN NaN
    ELSE IF IsInf(a) /\ IsInf(b) THEN (IF a.s = b.s THEN a ELSE NaN)
    ELSE IF IsInf(a) THEN a
    ELSE IF IsInf(b) THEN b
    ELSE LET v == a.s * a.n * b.d + b.s * b.n * a.d
         IN  IF v = 0
             THEN [s |-> IF IsZero(a) /\ IsZero(b) /\ a.s = -1 /\ b.s = -1
                         THEN -1 ELSE 1,
                   n |-> 0, d |-> 1]
             ELSE Norm(IF v < 0 THEN -1 ELSE 1, Abs(v), a.d * b.d)

FSub(a, b) == FAdd(a, FNeg(b))

\* a > b on f32: false when either side is NaN.
FGt(a, b) ==
    IF IsNaN(a) \/ IsNaN(b) THEN FALSE
    ELSE IF IsInf(a) /\ IsInf(b) THEN a.s = 1 /\ b.s = -1
    ELSE a.s * a.n * b.d > b.s * b.n * a.d

\* a == b on f32: NaN equals nothing, the two zeros are equal.
FEq(a, b) ==
    IF IsNaN(a) \/ IsNaN(b) THEN FALSE
    ELSE IF IsZero(a) /\ IsZero(b) THEN TRUE
    ELSE a = b

\* egui's Pos2
Pos2(x, y) == [x |-> x, y |-> y]
PosInt(c) == Pos2(FInt(c[1]), FInt(c[2]))
PosEq(a, b) == FEq(a.x, b.x) /\ FEq(a.y, b.y)

(***************************************************************************)
(* util/transforms.rs                                                      *)
(***************************************************************************)
Transform(sx, sy, ox, oy) ==
    [scale_x |-> sx, scale_y |-> sy, offset_x |-> ox, offset_y |-> oy]

\* mutant: the padded axis anchored at p1 like the other axis, not centred
new_horizontal_padded_anchored(s1, s2, d1, d2) ==
    LET scale_y == FDiv(FSub(d1.y, d2.y), FSub(s1.y, s2.y))
        offset_y == FSub(d1.y, FMul(s1.y, scale_y))
        scale_x == FCopysign(scale_y, FMul(FSub(s2.x, s1.x), FSub(d2.x, d1.x)))
        offset_x == FSub(d1.x, FMul(s1.x, scale_x))
    IN  Transform(scale_x, scale_y, offset_x, offset_y)

new_horizontal_padded(s1, s2, d1, d2) ==
    LET scale_y == FDiv(FSub(d1.y, d2.y), FSub(s1.y, s2.y))
        offset_y == FSub(d1.y, FMul(s1.y, scale_y))
        scale_x == FCopysign(scale_y, FMul(FSub(s2.x, s1.x), FSub(d2.x, d1.x)))
        src_x_middle == FDiv(FAdd(s1.x, s2.x), FInt(2))
        dst_x_middle == FDiv(FAdd(d1.x, d2.x), FInt(2))
        offset_x == FSub(dst_x_middle, FMul(src_x_middle, scale_x))
    IN  Transform(scale_x, scale_y, offset_x, offset_y)

transpose(t) == Transform(t.scale_y, t.scale_x, t.offset_y, t.offset_x)

\* the inner fn tr of new_letterboxed
tr(p) == Pos2(p.y, p.x)

new_letterboxed(s1, s2, d1, d2) ==
    LET src_width == FAbs(FSub(s1.x, s2.x))
        src_height == FAbs(FSub(s1.y, s2.y))
        dst_width == FAbs(FSub(d1.x, d2.x))
        dst_height == FAbs(FSub(d1.y, d2.y))
    IN  IF FGt(FMul(src_height, dst_width), FMul(dst_height, src_width))
        THEN new_horizontal_padded(s1, s2, d1, d2)
        ELSE transpose(new_horizontal_padded(tr(s1), tr(s2), tr(d1), tr(d2)))

\* the two assert! of inverse
inverse_asserts(t) == ~FEq(t.scale_x, FInt(0)) /\ ~FEq(t.scale_y, FInt(0))

\* mutant: the offsets negated but not divided by the scale
inverse_undivided(t) ==
    Transform(FRecip(t.scale_x), FRecip(t.scale_y), FNeg(t.offset_x), FNeg(t.offset_y))

inverse(t) ==
    Transform(FRecip(t.scale_x), FRecip(t.scale_y),
              FDiv(FNeg(t.offset_x), t.scale_x), FDiv(FNeg(t.offset_y), t.scale_y))

map_point(t, p) ==
    Pos2(FAdd(FMul(p.x, t.scale_x), t.offset_x), FAdd(FMul(p.y, t.scale_y), t.offset_y))

(***************************************************************************)
(* The parts a specification does not exercise stay in these states.       *)
(***************************************************************************)
XIdle ==
    /\ xpc = "idle" /\ src_p1 = None /\ src_p2 = None /\ dst_p1 = None /\ dst_p2 = None
    /\ xform = None /\ xinv = None /\ pt = None /\ mapped = None /\ back = None

WIdle ==
    /\ wpc = "idle" /\ color = 0 /\ i = 0 /\ samples = 0 /\ last_tile = None
    /\ last_edge = None /\ occupied_edges = {} /\ world_to_screen = None
    /\ draw_lines = FALSE /\ trail = <<>> /\ lastStep = None /\ markers = <<>>
    /\ accepted = <<>> /\ rejected = <<>>

MIdle ==
    /\ mpc = "idle" /\ r = 0 /\ total = 0 /\ ring_count = 0 /\ ring = None
    /\ ring_item = None

(***************************************************************************)
(* Specification SpecTransform: a Transform is built by new_letterboxed    *)
(* from two rectangles, inverted, and a point is mapped forth and back.    *)
(***************************************************************************)
MaxSrc == 1
MaxDst == 2
MaxPt == 1

SrcCoords == (0 - MaxSrc) .. MaxSrc
DstCoords == 0 .. MaxDst
PtCoords == (0 - MaxPt) .. MaxPt

\* The example of the specification's section 8, item 10.
ExampleRects == << <<-1, -1>>, <<1, 1>>, <<0, 0>>, <<200, 100>> >>

RectInputs ==
    { <<s1, s2, d1, d2>> : s1 \in SrcCoords \X SrcCoords, s2 \in SrcCoords \X SrcCoords,
                           d1 \in (0 .. 1) \X (0 .. 1), d2 \in DstCoords \X DstCoords }
    \cup { ExampleRects }

XInit ==
    /\ \E rects \in RectInputs :
          /\ src_p1 = PosInt(rects[1])
          /\ src_p2 = PosInt(rects[2])
          /\ dst_p1 = PosInt(rects[3])
          /\ dst_p2 = PosInt(rects[4])
    /\ xpc = "start"
    /\ xform = None /\ xinv = None /\ pt = None /\ mapped = None /\ back = None
    /\ WIdle /\ MIdle

\* make_transform: let world_to_screen = Transform::new_letterboxed(..)
XConstruct ==
    /\ xpc = "start"
    /\ xform' = new_letterboxed(src_p1, src_p2, dst_p1, dst_p2)
    /\ xpc' = "built"
    /\ UNCHANGED <<src_p1, src_p2, dst_p1, dst_p2, xinv, pt, mapped, back>>
    /\ UNCHANGED <<wvars, mvars>>

\* world_to_screen.inverse(): panics when an assert! fails
XInverse ==
    /\ xpc = "built"
    /\ IF inverse_asserts(xform)
       THEN xinv' = inverse(xform) /\ xpc' = "inverted"
       ELSE xinv' = xinv /\ xpc' = "panic"
    /\ UNCHANGED <<src_p1, src_p2, dst_p1, dst_p2, xform, pt, mapped, back>>
    /\ UNCHANGED <<wvars, mvars>>

\* world_to_screen.map_point(p)
XMap ==
    /\ xpc = "inverted"
    /\ \E c \in PtCoords \X PtCoords :
          /\ pt' = PosInt(c)
          /\ mapped' = map_point(xform, PosInt(c))
    /\ xpc' = "mapped"
    /\ UNCHANGED <<src_p1, src_p2, dst_p1, dst_p2, xform, xinv, back>>
    /\ UNCHANGED <<wvars, mvars>>

\* world_to_screen.inverse().map_point(pos)
XBack ==
    /\ xpc = "mapped"
    /\ back' = map_point(xinv, mapped)
    /\ xpc' = "done"
    /\ UNCHANGED <<src_p1, src_p2, dst_p1, dst_p2, xform, xinv, pt, mapped>>
    /\ UNCHANGED <<wvars, mvars>>

XNext == XConstruct \/ XInverse \/ XMap \/ XBack

SpecTransform == XInit /\ [][XNext]_vars

\* Both extents of both rectangles are non-zero.
NonDegenerate ==
    /\ ~FEq(src_p1.x, src_p2.x) /\ ~FEq(src_p1.y, src_p2.y)
    /\ ~FEq(dst_p1.x, dst_p2.x) /\ ~FEq(dst_p1.y, dst_p2.y)

Built == xpc \in {"built", "inverted", "mapped", "done", "panic"}

ScaleUsable(t) ==
    /\ IsFinite(t.scale_x) /\ ~IsZero(t.scale_x)
    /\ IsFinite(t.scale_y) /\ ~IsZero(t.scale_y)

Mid(a, b) == Pos2(FDiv(FAdd(a.x, b.x), FInt(2)), FDiv(FAdd(a.y, b.y), FInt(2)))

\* C4: every Transform new_letterboxed returns has both scale components
\* non-zero and finite (degenerate rectangles are rejected when it is built),
\* so inverse never fails an assertion on a constructed transform.
C4_ConstructedInvertible ==
    Built => (ScaleUsable(xform) /\ xpc # "panic")

\* C5: for non-degenerate rectangles, of any orientation, mapping a point and
\* mapping the result through the inverse gives the point back.
C5_RoundTrip ==
    (xpc = "done" /\ NonDegenerate) => PosEq(back, pt)

\* a round trip of a point other than the origin, through a transform that
\* mirrors an axis and has a non-zero offset
C5_Witness ==
    /\ xpc = "done" /\ NonDegenerate /\ PosEq(back, pt)
    /\ ~PosEq(pt, PosInt(<<0, 0>>))
    /\ xform.scale_x.s # xform.scale_y.s
    /\ ~IsZero(xform.offset_x) /\ ~IsZero(xform.offset_y)
    /\ ~PosEq(mapped, pt)

\* C6: for non-degenerate rectangles the midpoint of the source rectangle maps
\* to the midpoint of the destination rectangle on both axes, in either branch.
C6_CentreToCentre ==
    (Built /\ NonDegenerate) =>
        PosEq(map_point(xform, Mid(src_p1, src_p2)), Mid(dst_p1, dst_p2))

\* the specification's example: (-1,-1)-(1,1) into (0,0)-(200,100) maps (0,0)
\* to (100,50), the padded axis being x
C6_Witness ==
    /\ Built
    /\ <<src_p1, src_p2, dst_p1, dst_p2>> =
          <<PosInt(<<-1, -1>>), PosInt(<<1, 1>>), PosInt(<<0, 0>>), PosInt(<<200, 100>>)>>
    /\ PosEq(map_point(xform, PosInt(<<0, 0>>)), PosInt(<<100, 50>>))
    /\ xform.scale_x = FInt(50) /\ xform.scale_y = FInt(50)

(***************************************************************************)
(* hex2d, as viewer.rs and main.rs use it.  A Coordinate is <<x, y>>, with *)
(* z = -x - y.                                                             *)
(***************************************************************************)
Coord(x, y) == <<x, y>>
CoordAdd(a, b) == <<a[1] + b[1], a[2] + b[2]>>
CoordZ(a) == 0 - a[1] - a[2]

\* Direction, in the order of its discriminants 0..5
Directions == <<"YZ", "XZ", "XY", "ZY", "ZX", "YX">>

DirVec(d) ==
    CASE d = "YZ" -> <<0, 1>>
      [] d = "XZ" -> <<1, 0>>
      [] d = "XY" -> <<1, -1>>
      [] d = "ZY" -> <<0, -1>>
      [] d = "ZX" -> <<-1, 0>>
      [] d = "YX" -> <<-1, 1>>

\* Coordinate::neighbors: the six adjacent tiles, as an array
neighbors(t) == [k \in 1 .. 6 |-> CoordAdd(t, DirVec(Directions[k]))]

\* Coordinate::direction_to_cw(other), for an adjacent tile: Some(direction)
direction_to_cw(a, b) ==
    CHOOSE d \in {Directions[k] : k \in 1 .. 6} : CoordAdd(a, DirVec(d)) = b

\* Coordinate derives Ord: lexicographic on (x, y)
CoordLess(a, b) == a[1] < b[1] \/ (a[1] = b[1] /\ a[2] < b[2])
CoordMin(a, b) == IF CoordLess(b, a) THEN b ELSE a
CoordMax(a, b) == IF CoordLess(b, a) THEN a ELSE b

(***************************************************************************)
(* World and screen points of the walk are integer pairs: x in units of    *)
(* SQRT_3 / 4 and y in units of 1 / 4 of a side length, in which every     *)
(* tile centre, hexagon corner and edge midpoint is integral.              *)
(***************************************************************************)
\* tile.to_pixel(Spacing::PointyTop(1.0)) = (sqrt 3 * (x + z/2), 3/2 * z)
to_pixel(t) == <<4 * t[1] + 2 * CoordZ(t), 6 * CoordZ(t)>>

\* HEXAGON_CORNERS[k], k = 0..6 (a TLA+ sequence starts at 1)
HEXAGON_CORNERS ==
    << <<0, 4>>, <<2, 2>>, <<2, -2>>, <<0, -4>>, <<-2, -2>>, <<-2, 2>>, <<0, 4>> >>

\* the match on the direction from the new tile to last_tile
edge_index(d) ==
    CASE d = "ZY" -> 0
      [] d = "XY" -> 1
      [] d = "XZ" -> 2
      [] d = "YZ" -> 3
      [] d = "YX" -> 4
      [] d = "ZX" -> 5

\* world_to_screen.map_point on integer points (integer scale and offset)
to_screen(t, p) == <<p[1] * t.scale_x + t.offset_x, p[2] * t.scale_y + t.offset_y>>

\* the closure edge_endpoints
edge_endpoints(t, tile, edge_idx) ==
    << to_screen(t, CoordAdd(to_pixel(tile), HEXAGON_CORNERS[edge_idx + 1])),
       to_screen(t, CoordAdd(to_pixel(tile), HEXAGON_CORNERS[edge_idx + 2])) >>

\* let edge = e1 + (e2 - e1) / 2.0, of the edge between tile and lt
edge_midpoint(t, tile, lt) ==
    LET e == edge_endpoints(t, tile, edge_index(direction_to_cw(tile, lt)))
        e1 == e[1]
        e2 == e[2]
    IN  <<e1[1] + (e2[1] - e1[1]) \div 2, e1[2] + (e2[2] - e1[2]) \div 2>>

\* (tile.min(last_tile), tile.max(last_tile))
EdgeKey(tile, lt) == <<CoordMin(tile, lt), CoordMax(tile, lt)>>

\* mutant: only the reversal is rejected, a claimed edge is not
rejects_reversal_only(le, edge, occ, key) == le = Some(edge)

\* mutant: only a claimed edge is rejected, the reversal test is dropped
rejects_claimed_only(le, edge, occ, key) == key \in occ

\* last_edge == Some(edge) || !occupied_edges.insert(key)
rejects(le, edge, occ, key) == le = Some(edge) \/ key \in occ

\* mutant: a rejected sample is retried within the same step
loop_advance_on_accept(n, ok) == IF ok THEN n + 1 ELSE n

\* for _ in 0..100: every pass through the body, continue included, is one
\* iteration
loop_advance(n, ok) == n + 1

\* mutant: the control point is the centre of the tile stepped onto
curve_segment_candidate(draw, t, le, lt, tile, edge) ==
    IF draw /\ le # None
    THEN << <<le[1], to_screen(t, to_pixel(tile)), edge>> >>
    ELSE <<>>

\* if self.draw_lines { if let Some(last_edge) = last_edge { painter.add(..) } }
curve_segment(draw, t, le, lt, tile, edge) ==
    IF draw /\ le # None
    THEN << <<le[1], to_screen(t, to_pixel(lt)), edge>> >>
    ELSE <<>>

\* mutant: the end-of-line marker is never drawn
end_marker_skipped(le) == <<>>

\* if let Some(last_edge) = last_edge { painter.circle_filled(last_edge, ..) }
end_marker(le) == IF le # None THEN <<le[1]>> ELSE <<>>

(***************************************************************************)
(* Specification SpecWalk: one pass of paint_game's path loop.             *)
(***************************************************************************)
\* the number of colours: [RED, GREEN, YELLOW]
NumColors == 3
\* the iterations of the inner loop (100 in the source)
StepBudget == 2

START_TILE == Coord(10, -3)

\* make_transform on a viewport of positive size gives equal non-zero scales
\* with the y axis flipped; on a viewport of size zero it gives scale 0.
ScreenTransforms ==
    { [scale_x |-> 2, scale_y |-> -2, offset_x |-> 3, offset_y |-> 5],
      [scale_x |-> 0, scale_y |-> 0, offset_x |-> 3, offset_y |-> 5] }

NoStep == [kind |-> "none"]

WInit ==
    /\ wpc = "walk"
    /\ color = 1
    /\ i = 0
    /\ samples = 0
    /\ last_tile = START_TILE
    /\ last_edge = None
    /\ occupied_edges = {}
    /\ world_to_screen \in ScreenTransforms
    /\ draw_lines \in BOOLEAN
    /\ trail = <<>>
    /\ lastStep = NoStep
    /\ markers = [c \in 1 .. NumColors |-> <<>>]
    /\ accepted = [c \in 1 .. NumColors |-> 0]
    /\ rejected = [c \in 1 .. NumColors |-> 0]
    /\ XIdle /\ MIdle

\* one iteration of the inner loop that ends in `continue`
WalkReject ==
    /\ wpc = "walk"
    /\ i < StepBudget
    /\ \E k \in 1 .. 6 :
          LET tile == neighbors(last_tile)[k]
              edge == edge_midpoint(world_to_screen, tile, last_tile)
              key == EdgeKey(tile, last_tile)
          IN  /\ rejects(last_edge, edge, occupied_edges, key)
              /\ lastStep' = [kind |-> "reject",
                              reason |-> IF last_edge = Some(edge)
                                         THEN "reversal" ELSE "claimed"]
    /\ i' = loop_advance(i, FALSE)
    /\ samples' = samples + 1
    /\ rejected' = [rejected EXCEPT ![color] = @ + 1]
    /\ UNCHANGED <<wpc, color, last_tile, last_edge, occupied_edges, world_to_screen,
                   draw_lines, trail, markers, accepted>>
    /\ UNCHANGED <<xvars, mvars>>

\* one iteration of the inner loop that runs to its end (the edge highlight
\* drawn when highlight_edges is set only paints, and is left out)
WalkAccept ==
    /\ wpc = "walk"
    /\ i < StepBudget
    /\ \E k \in 1 .. 6 :
          LET tile == neighbors(last_tile)[k]
              edge == edge_midpoint(world_to_screen, tile, last_tile)
              key == EdgeKey(tile, last_tile)
          IN  /\ ~rejects(last_edge, edge, occupied_edges, key)
              /\ occupied_edges' = occupied_edges \cup {key}
              /\ IF last_edge = Some(edge)
                 THEN \* assert_ne!(last_edge, Some(edge)) panics
                      /\ wpc' = "panic"
                      /\ lastStep' = [kind |-> "panic"]
                      /\ UNCHANGED <<i, last_tile, last_edge, trail, accepted>>
                 ELSE /\ wpc' = wpc
                      /\ lastStep' =
                            [kind |-> "accept", from |-> last_tile, to |-> tile,
                             prev_edge |-> last_edge, edge |-> edge,
                             segment |-> curve_segment(draw_lines, world_to_screen,
                                                       last_edge, last_tile, tile, edge)]
                      /\ trail' = Append(trail, [color |-> color, from |-> last_tile,
                                                 to |-> tile, edge |-> edge])
                      /\ accepted' = [accepted EXCEPT ![color] = @ + 1]
                      /\ last_tile' = tile
                      /\ last_edge' = Some(edge)
                      /\ i' = loop_advance(i, TRUE)
    /\ samples' = samples + 1
    /\ UNCHANGED <<color, world_to_screen, draw_lines, markers, rejected>>
    /\ UNCHANGED <<xvars, mvars>>

\* the inner loop is exhausted: the end-of-line marker, then the next colour
WalkEndPath ==
    /\ wpc = "walk"
    /\ i >= StepBudget
    /\ markers' = [markers EXCEPT ![color] = end_marker(last_edge)]
    /\ lastStep' = [kind |-> "end"]
    /\ IF color < NumColors
       THEN /\ color' = color + 1
            /\ last_tile' = START_TILE
            /\ last_edge' = None
            /\ i' = 0
            /\ samples' = 0
            /\ wpc' = wpc
       ELSE /\ wpc' = "done"
            /\ UNCHANGED <<color, last_tile, last_edge, i, samples>>
    /\ UNCHANGED <<occupied_edges, world_to_screen, draw_lines, trail, accepted, rejected>>
    /\ UNCHANGED <<xvars, mvars>>

WNext == WalkReject \/ WalkAccept \/ WalkEndPath

SpecWalk == WInit /\ [][WNext]_vars

Finished(c) == c < color \/ wpc = "done"

\* the indices of the accepted steps of path c, in the trail
StepsOf(c) == {k \in 1 .. Len(trail) : trail[k].color = c}

Max(S) == CHOOSE m \in S : \A n \in S : n <= m

Adjacent(a, b) == \E k \in 1 .. 6 : neighbors(a)[k] = b

\* C1: throughout a pass the claimed-edge set holds exactly one key per
\* accepted step, the (min, max) pair of the step's two adjacent tiles, and no
\* two accepted steps, of one path or of different paths, cross the same edge.
C1_EdgeClaim ==
    /\ Cardinality(occupied_edges) = Len(trail)
    /\ occupied_edges =
          { IF CoordLess(trail[k].from, trail[k].to)
            THEN <<trail[k].from, trail[k].to>>
            ELSE <<trail[k].to, trail[k].from>> : k \in 1 .. Len(trail) }
    /\ \A key \in occupied_edges : CoordLess(key[1], key[2]) /\ Adjacent(key[1], key[2])
    /\ \A j, k \in 1 .. Len(trail) :
          j # k => {trail[j].from, trail[j].to} # {trail[k].from, trail[k].to}

\* a later path's first sample hits an edge an earlier path claimed, then the
\* path goes on: the set is shared by the paths
C1_Witness ==
    /\ wpc = "walk" /\ color = 2 /\ rejected[2] >= 1 /\ accepted[2] >= 1
    /\ Len(trail) >= 3
    /\ lastStep.kind = "accept"
    /\ world_to_screen.scale_x # 0

\* the loop's variant: the iterations and paths still to run
WalkRank ==
    (NumColors - color) * (StepBudget + 1) + (StepBudget - i)
        + (IF wpc = "walk" THEN 1 ELSE 0)

\* C2: the walk always terminates: every step of the pass, a rejected sample
\* included, lowers a non-negative variant, no path draws more samples than
\* its budget, and the loop counters stay in the ranges in which an iteration
\* or the end of the path is the next step.
C2_Terminates ==
    /\ [](/\ WalkRank >= 0
          /\ samples <= StepBudget
          /\ i \in 0 .. StepBudget
          /\ color \in 1 .. NumColors)
    /\ [][WalkRank' < WalkRank]_vars

\* the pass has ended although a path was stuck: on a viewport of size zero
\* every sample after a path's first step is rejected
C2_Witness ==
    /\ wpc = "done"
    /\ world_to_screen.scale_x = 0
    /\ \A c \in 1 .. NumColors : rejected[c] >= 1
    /\ Len(trail) < NumColors * StepBudget

\* C3: an accepted step's edge midpoint differs from the path's previous one,
\* the step does not lead back onto the tile just left, and the assert_ne!
\* never fails.
C3_NoReversal ==
    /\ wpc # "panic"
    /\ lastStep.kind = "accept" => lastStep.prev_edge # Some(lastStep.edge)
    /\ \A k \in 2 .. Len(trail) :
          trail[k].color = trail[k - 1].color =>
              /\ trail[k].edge # trail[k - 1].edge
              /\ trail[k].to # trail[k - 1].from

\* the first path sampled the step back and had it rejected, and a later
\* path has just made an accepted step that follows another
C3_Witness ==
    /\ wpc = "walk" /\ color >= 2
    /\ world_to_screen.scale_x # 0
    /\ accepted[1] >= 1 /\ rejected[1] >= 1
    /\ lastStep.kind = "accept"
    /\ lastStep.prev_edge # None

\* C8 as stated: a rejected sample does not use up budget, so a finished
\* path has made exactly StepBudget accepted steps.
C8_ExactlyBudgetAccepted ==
    \A c \in 1 .. NumColors : Finished(c) => accepted[c] = StepBudget

\* C8 amended: a rejected sample uses up one iteration like an accepted one:
\* accepted and rejected samples of a path add up to the iterations run, to
\* StepBudget once the path has ended, so a path makes at most StepBudget
\* accepted steps.
C8_RejectUsesBudget ==
    /\ wpc # "panic" => accepted[color] + rejected[color] = i
    /\ samples = i
    /\ \A c \in 1 .. NumColors :
          /\ accepted[c] <= StepBudget
          /\ (Finished(c) /\ wpc # "panic") => accepted[c] + rejected[c] = StepBudget

\* a path has ended with fewer accepted steps than its budget
C8_Witness ==
    \E c \in 1 .. NumColors :
        Finished(c) /\ rejected[c] >= 1 /\ accepted[c] >= 1
            /\ accepted[c] + rejected[c] = StepBudget

\* C9 as stated: every accepted step, the first of a path too, emits the
\* segment (last_edge, centre of the tile just accepted, new edge midpoint).
C9_SegmentThroughCandidate ==
    lastStep.kind = "accept" =>
        /\ Len(lastStep.segment) = 1
        /\ lastStep.segment[1][2] = to_screen(world_to_screen, to_pixel(lastStep.to))
        /\ lastStep.segment[1][3] = lastStep.edge

\* C9 amended: an accepted step emits a segment only when draw_lines is set
\* and the path already has an edge point; its points are the previous edge
\* midpoint, the centre of the tile the step leaves (last_tile) and the new
\* edge midpoint.
C9_SegmentThroughLastTile ==
    lastStep.kind = "accept" =>
        IF draw_lines /\ lastStep.prev_edge # None
        THEN lastStep.segment =
                << <<lastStep.prev_edge[1],
                     to_screen(world_to_screen, to_pixel(lastStep.from)),
                     lastStep.edge>> >>
        ELSE lastStep.segment = <<>>

\* a segment was emitted whose control point is not the new tile's centre
C9_Witness ==
    /\ lastStep.kind = "accept"
    /\ Len(lastStep.segment) = 1
    /\ lastStep.segment[1][2] # to_screen(world_to_screen, to_pixel(lastStep.to))
    /\ lastStep.segment[1][1] # lastStep.segment[1][3]

\* C10 as stated: every path that has ended has exactly one marker.
C10_MarkerForEveryPath ==
    \A c \in 1 .. NumColors : Finished(c) => Len(markers[c]) = 1

\* C10 amended: a path that has ended has one marker, at its last accepted
\* edge midpoint, if it accepted a step, and none if all its samples were
\* rejected; the first path of a pass always has one.
C10_MarkerIfStepped ==
    /\ \A c \in 1 .. NumColors :
          (Finished(c) /\ wpc # "panic") =>
              IF StepsOf(c) # {}
              THEN markers[c] = <<trail[Max(StepsOf(c))].edge>>
              ELSE markers[c] = <<>>
    /\ (Finished(1) /\ wpc # "panic") => Len(markers[1]) = 1
    /\ \A c \in 1 .. NumColors : ~Finished(c) => markers[c] = <<>>

\* the pass has ended with a marker for some paths and none for another
C10_Witness ==
    /\ wpc = "done"
    /\ \E c \in 1 .. NumColors : markers[c] = <<>> /\ accepted[c] = 0
    /\ \E c \in 2 .. NumColors : Len(markers[c]) = 1 /\ accepted[c] = StepBudget

(***************************************************************************)
(* Specification SpecRing: main.rs counts the tiles of the rings of radius *)
(* 0 to GRID_RADIUS around the origin.  A ring iterator is the record      *)
(* [source, cur_coord, cur_dir, r, ii, jj, fuse]; directions are their     *)
(* discriminants 0..5, and Angle::Right adds 1, Angle::RightBack adds 2.   *)
(***************************************************************************)
GRID_RADIUS == 40

DirAt(n) == Directions[(n % 6) + 1]

DirIndex(d) == CHOOSE n \in 0 .. 5 : Directions[n + 1] = d

CoordScale(a, k) == <<a[1] * k, a[2] * k>>

\* origin.ring_iter(radius, Spin::CW(start_dir)), radius >= 0
ring_iter(source, radius, start_dir) ==
    [source |-> source,
     cur_coord |-> CoordAdd(source, CoordScale(DirVec(start_dir), radius)),
     cur_dir |-> (DirIndex(start_dir) + 2) % 6,
     r |-> radius, ii |-> 0, jj |-> 0, fuse |-> FALSE]

\* Ring::next: <<the iterator afterwards, the Option yielded>>
ring_next(it) ==
    IF it.fuse THEN <<it, None>>
    ELSE IF it.r = 0 THEN <<[it EXCEPT !.fuse = TRUE], Some(it.source)>>
    ELSE IF it.jj >= it.r /\ it.ii + 1 >= 6
         THEN <<[it EXCEPT !.ii = it.ii + 1, !.fuse = TRUE], None>>
    ELSE LET turned == IF it.jj >= it.r
                       THEN [it EXCEPT !.ii = it.ii + 1,
                                       !.cur_dir = (it.cur_dir + 1) % 6,
                                       !.jj = 0]
                       ELSE it
         IN  <<[turned EXCEPT !.jj = turned.jj + 1,
                              !.cur_coord = CoordAdd(turned.cur_coord,
                                                     DirVec(DirAt(turned.cur_dir)))],
               Some(turned.cur_coord)>>

\* mutant: the total is overwritten by the ring's count
accumulate_overwrite(sum, count) == count

\* total += ring_count
accumulate(sum, count) == sum + count

MInit ==
    /\ mpc = "loop"
    /\ r = 0
    /\ total = 0
    /\ ring_count = 0
    /\ ring = None
    /\ ring_item = None
    /\ XIdle /\ WIdle

\* for r in 0..=40 { let ring = origin.ring_iter(r, Spin::CW(Direction::XY));
MainRing ==
    /\ mpc = "loop"
    /\ r <= GRID_RADIUS
    /\ ring' = ring_iter(Coord(0, 0), r, "XY")
    /\ ring_count' = 0
    /\ ring_item' = None
    /\ mpc' = "count"
    /\ UNCHANGED <<r, total>>
    /\ UNCHANGED <<xvars, wvars>>

\* ring.count(): one call of next that yields a tile
MainCountTile ==
    /\ mpc = "count"
    /\ ring_next(ring)[2] # None
    /\ ring' = ring_next(ring)[1]
    /\ ring_item' = ring_next(ring)[2]
    /\ ring_count' = ring_count + 1
    /\ UNCHANGED <<mpc, r, total>>
    /\ UNCHANGED <<xvars, wvars>>

\* ring.count() returns; total += ring_count; the next radius
MainCounted ==
    /\ mpc = "count"
    /\ ring_next(ring)[2] = None
    /\ ring' = ring_next(ring)[1]
    /\ total' = accumulate(total, ring_count)
    /\ mpc' = "counted"
    /\ UNCHANGED <<r, ring_count, ring_item>>
    /\ UNCHANGED <<xvars, wvars>>

\* the end of the loop body
MainNextRadius ==
    /\ mpc = "counted"
    /\ r' = r + 1
    /\ mpc' = IF r + 1 > GRID_RADIUS THEN "done" ELSE "loop"
    /\ UNCHANGED <<total, ring_count, ring, ring_item>>
    /\ UNCHANGED <<xvars, wvars>>

MNext == MainRing \/ MainCountTile \/ MainCounted \/ MainNextRadius

SpecRing == MInit /\ [][MNext]_vars

\* hex distance from the origin
HexNorm(a) == (Abs(a[1]) + Abs(a[2]) + Abs(CoordZ(a))) \div 2

\* C7: the ring of radius r, 0 <= r <= GRID_RADIUS, has 1 coordinate for
\* r = 0 and 6 * r for r > 0, and the total over the radii 0..r is
\* 1 + 3 * r * (r + 1).
C7_RingCardinality ==
    /\ mpc = "counted" =>
          /\ r \in 0 .. GRID_RADIUS
          /\ ring_count = (IF r = 0 THEN 1 ELSE 6 * r)
          /\ total = 1 + 3 * r * (r + 1)
    /\ mpc = "count" => ring_count <= (IF r = 0 THEN 1 ELSE 6 * r)
    /\ (mpc = "count" /\ ring_item # None) => HexNorm(ring_item[1]) = r
    /\ mpc = "done" => total = 1 + 3 * GRID_RADIUS * (GRID_RADIUS + 1)

\* the outermost ring has been counted: 240 tiles, 4921 in all
C7_Witness ==
    /\ mpc = "counted" /\ r = GRID_RADIUS
    /\ ring_count = 240 /\ total = 4921

====
